---- MODULE Spec2Model ----
(***************************************************************************)
(* Model of the data-vault entity fetchers: FUTURES (futures.py), STOCKS   *)
(* (stocks.py) and INDEX (index.py).  One entity object is modelled; its   *)
(* class is chosen at construction.  Every fetch method is one action that *)
(* runs the whole handler: guard, window construction, the sequence of     *)
(* remote calls (whose responses are inputs), concat/sort and assignment.  *)
(*                                                                         *)
(* Three specifications share the actions and differ in the inputs they    *)
(* draw: Spec (every response, few dates), SpecMonthly (every input date   *)
(* of the membership fetch) and SpecChunked (every clock value).           *)
(*                                                                         *)
(* Encodings                                                               *)
(*   - a "YYYYMMDD" string is the integer with those digits; 0 is a string *)
(*     that is not 8 digits.  strptime = ParseYMD, strftime = FmtYMD.      *)
(*   - a datetime is [y, m, d, t]; t = 0 is midnight, t > 0 is later.      *)
(*   - an Optional attribute is <<>> (None) or <<v>>.                      *)
(*   - an error is [type, run]: the exception class and the method the     *)
(*     message asks to run ("" when the message names none).               *)
(***************************************************************************)
EXTENDS Integers, Sequences, FiniteSets, TLC

VARIABLES cls, obj, calls, last, done

vars == <<cls, obj, calls, last, done>>

(* ------------------------------ bounds --------------------------------- *)

\* Largest number of chunk-loop iterations the model lets fetch_ohlc run.
MaxChunkIter == 64

\* A remote call of a loop may fail only at one of the first MaxFailAt
\* positions of the loop (the later calls then succeed).
MaxFailAt == 2

\* Number of consecutive months, from December 2019 on, that the input
\* dates of the membership fetch are drawn from.
MaxMonths == 3

\* The same, for the runs that exercise the whole life cycle of an object.
MaxMonthsShort == 2

\* The remote history has rows only for chunks starting before this year.
HistoryEndYear == 2030

(* ------------------------- Optional values ----------------------------- *)

None == <<>>

Some(v) == <<v>>

IsNone(o) == o = <<>>

(* ------------------------------ calendar -------------------------------- *)

IsLeap(y) == (y % 4 = 0) /\ ((y % 100 # 0) \/ (y % 400 = 0))

DaysInMonth(y, m) ==
    IF m \in {4, 6, 9, 11} THEN 30
    ELSE IF m = 2 THEN (IF IsLeap(y) THEN 29 ELSE 28)
    ELSE 31

\* datetime.MINYEAR .. datetime.MAXYEAR
ValidDate(y, m, d) ==
    /\ y \in 1..9999
    /\ m \in 1..12
    /\ d \in 1..DaysInMonth(y, m)

DT(y, m, d, t) == [y |-> y, m |-> m, d |-> d, t |-> t]

\* datetime.strptime(s, "%Y%m%d"): the fields of the string, at midnight.
ParseYMD(s) == DT(s \div 10000, (s \div 100) % 100, s % 100, 0)

is_valid_yyyymmdd(s) ==
    /\ s >= 10000101
    /\ s <= 99991231
    /\ ValidDate(ParseYMD(s).y, ParseYMD(s).m, ParseYMD(s).d)

\* strftime("%Y%m%d"): the time of day is dropped.
FmtYMD(dt) == dt.y * 10000 + dt.m * 100 + dt.d

\* datetime comparison: lexicographic on (year, month, day, time).
DtLE(a, b) ==
    \/ a.y < b.y
    \/ a.y = b.y /\ a.m < b.m
    \/ a.y = b.y /\ a.m = b.m /\ a.d < b.d
    \/ a.y = b.y /\ a.m = b.m /\ a.d = b.d /\ a.t <= b.t

DtLT(a, b) == DtLE(a, b) /\ a # b

\* dt + timedelta(days=1)
AddDay(dt) ==
    IF dt.d < DaysInMonth(dt.y, dt.m) THEN [dt EXCEPT !.d = dt.d + 1]
    ELSE IF dt.m < 12 THEN [dt EXCEPT !.m = dt.m + 1, !.d = 1]
    ELSE [dt EXCEPT !.y = dt.y + 1, !.m = 1, !.d = 1]

\* dt.replace(day=1)
ReplaceDay1(dt) == [dt EXCEPT !.d = 1]

\* Offsetting by the polars interval "1mo" from a first-of-month date.
AddMonth(dt) ==
    IF dt.m < 12 THEN [dt EXCEPT !.m = dt.m + 1]
    ELSE [dt EXCEPT !.y = dt.y + 1, !.m = 1]

(* ----------------------------- windowing -------------------------------- *)

\* Variant: the first month is emitted before the bounds are compared.
RECURSIVE date_range_first(_, _)
date_range_first(cur, end) ==
    <<cur>> \o (IF DtLT(cur, end) THEN date_range_first(AddMonth(cur), end) ELSE <<>>)

\* pl.date_range(start, end, interval="1mo", eager=True) on first-of-month
\* bounds: start, start+1mo, ... while <= end; an empty Series, not an
\* error, when start > end.
RECURSIVE date_range(_, _)
date_range(cur, end) ==
    IF DtLE(cur, end) THEN <<cur>> \o date_range(AddMonth(cur), end)
    ELSE <<>>

\* Variant: the bounds are not moved to the first day of their month.
MonthlyDates_raw(start, end) ==
    LET ds == date_range(start, end)
    IN  [i \in 1..Len(ds) |-> FmtYMD(ds[i])]

\* The list `dates` of fetch_chains / fetch_members: the month starts from
\* the month of start to the month of end, formatted as YYYYMMDD.
MonthlyDates(start, end) ==
    LET ds == date_range(ReplaceDay1(start), ReplaceDay1(end))
    IN  [i \in 1..Len(ds) |-> FmtYMD(ds[i])]

\* First day of the OHLC history, "19900101".
FloorDate == 19900101

\* Years added to a chunk's start to get its candidate end.
ChunkYears == 10

\* current_start.replace(year=current_start.year + 10), with the fallback
\* to day 28 when that date does not exist.  (Both raise past year 9999;
\* the inputs of the model stay far below.)
PlusChunkYears(cur) ==
    IF ValidDate(cur.y + ChunkYears, cur.m, cur.d)
    THEN [cur EXCEPT !.y = cur.y + ChunkYears]
    ELSE [cur EXCEPT !.y = cur.y + ChunkYears, !.d = 28]

\* Variant: the candidate end is not cut back to today.
ChunkEnd_unclamped(cur, today) == PlusChunkYears(cur)

\* One iteration's window: (current_start, min(candidate_end, today)).
ChunkEnd(cur, today) ==
    IF DtLT(today, PlusChunkYears(cur)) THEN today ELSE PlusChunkYears(cur)

\* Variant: the next chunk starts on the day the previous one ended.
NextStart_same(end) == end

\* The next iteration's current_start.
NextStart(end) == AddDay(end)

\* The while loop of fetch_ohlc, run for at most `fuel` iterations, from
\* current_start = cur with the chunks appended so far.  Result: the list
\* `chunks`, and whether the loop condition ended the loop.
RECURSIVE ChunkLoop(_, _, _, _)
ChunkLoop(cur, today, fuel, chunks) ==
    IF ~DtLE(cur, today) THEN [chunks |-> chunks, exited |-> TRUE]
    ELSE IF fuel = 0 THEN [chunks |-> chunks, exited |-> FALSE]
    ELSE ChunkLoop(NextStart(ChunkEnd(cur, today)), today, fuel - 1,
                   Append(chunks, [start |-> cur, end |-> ChunkEnd(cur, today)]))

BuildChunks(today) == ChunkLoop(ParseYMD(FloorDate), today, MaxChunkIter, <<>>)

(* ------------------------------ tables ---------------------------------- *)

\* Instrument names the remote API may return.
Names == {"A", "B"}

\* STOCKS.__fetch_constituents: pl.col("symbol") + " Equity".
EquityOf(n) == n \o " Equity"

\* The symbol column of a membership row: the member name as returned
\* (FUTURES.__fetch_chain) or with " Equity" appended (STOCKS).
SymbolOf(c, n) == IF c = "FUTURES" THEN n ELSE EquityOf(n)

\* Sort order of strings (polars sorts Utf8 lexicographically).
SymOrder == <<"A", "A Equity", "B", "B Equity", "IDX">>

Rank(sym) == CHOOSE i \in 1..Len(SymOrder) : SymOrder[i] = sym

\* DataFrame.sort: the rows of a set of [k, r] pairs in ascending key order.
RECURSIVE SortKeyed(_)
SortKeyed(S) ==
    IF S = {} THEN <<>>
    ELSE LET x == CHOOSE x \in S : \A z \in S : x.k <= z.k
         IN  <<x.r>> \o SortKeyed(S \ {x})

SeqRange(q) == {q[i] : i \in 1..Len(q)}

\* Variant: the list keeps a single value of the column.
Perms_one(S) == {<<x>> : x \in S}

\* All orders of a finite set: Series.unique() does not fix the order.
RECURSIVE Perms(_)
Perms(S) ==
    IF S = {} THEN {<<>>}
    ELSE UNION {{<<x>> \o p : p \in Perms(S \ {x})} : x \in S}

Min(a, b) == IF a <= b THEN a ELSE b

Classes == {"FUTURES", "STOCKS", "INDEX"}

\* The Optional attributes set to None by __init__.
Attrs(c) ==
    IF c = "FUTURES" THEN {"_chains", "_symbols", "_meta", "_ohlc"}
    ELSE IF c = "STOCKS"
    THEN {"_members", "_symbols", "_meta", "_divs", "_ohlc", "_fundamentals"}
    ELSE {"_ohlc_daily", "_ohlc_1min"}

\* The public fetch methods each class defines.
Methods(c) ==
    IF c = "FUTURES" THEN {"fetch_chains", "fetch_meta", "fetch_ohlc"}
    ELSE IF c = "STOCKS"
    THEN {"fetch_members", "fetch_meta", "fetch_divs", "fetch_ohlc"}
    ELSE {"fetch_ohlc_daily", "fetch_ohlc_1min"}

Acc(n, a, r) == [name |-> n, attr |-> a, run |-> r]

\* The properties: name, attribute read, and the fetch method name passed
\* to __get_or_raise.
Accessors(c) ==
    IF c = "FUTURES"
    THEN {Acc("chains", "_chains", "fetch_chains"),
          Acc("symbols", "_symbols", "fetch_chains"),
          Acc("meta", "_meta", "fetch_meta"),
          Acc("ohlc", "_ohlc", "fetch_ohlc")}
    ELSE IF c = "STOCKS"
    THEN {Acc("members", "_members", "fetch_members"),
          Acc("symbols", "_symbols", "fetch_symbols"),
          Acc("meta", "_meta", "fetch_meta"),
          Acc("divs", "_divs", "fetch_divs"),
          Acc("ohlc", "_ohlc", "fetch_ohlc"),
          Acc("fundamentals", "_fundamentals", "fetch_fundamentals")}
    ELSE {Acc("ohlc_daily", "_ohlc_daily", "fetch_ohlc_daily"),
          Acc("ohlc_1min", "_ohlc_1min", "fetch_ohlc_1min")}

\* The membership attribute and method of FUTURES and STOCKS.
MemberAttr(c) == IF c = "FUTURES" THEN "_chains" ELSE "_members"

MemberMethod(c) == IF c = "FUTURES" THEN "fetch_chains" ELSE "fetch_members"

\* The method whose last statements assign the attribute ("" when no method
\* of the class assigns it).
Populator(c, attr) ==
    IF attr \in {"_chains", "_members", "_symbols"} THEN MemberMethod(c)
    ELSE IF attr = "_meta" THEN "fetch_meta"
    ELSE IF attr = "_ohlc" THEN "fetch_ohlc"
    ELSE IF attr = "_divs" THEN "fetch_divs"
    ELSE IF attr = "_ohlc_daily" THEN "fetch_ohlc_daily"
    ELSE IF attr = "_ohlc_1min" THEN "fetch_ohlc_1min"
    ELSE ""

(* --------------------------- results of a call -------------------------- *)

NoErr == [type |-> "", run |-> ""]

Err(t, r) == [type |-> t, run |-> r]

NoLoop == [chunks |-> <<>>, exited |-> TRUE]

\* What the last operation did: its name and arguments, whether it returned
\* or raised, the error, the value an accessor returned, and the locals
\* `dates` / `chunks` when the handler got as far as building them.
Outcome(op, args, status, err, ret, dates, loop, built) ==
    [op |-> op, args |-> args, status |-> status, err |-> err, ret |-> ret,
     dates |-> dates, chunks |-> loop.chunks, exited |-> loop.exited,
     built |-> built]

Returned(op, args, dates, loop) ==
    Outcome(op, args, "returned", NoErr, None, dates, loop, TRUE)

Raised(op, args, err, dates, loop, built) ==
    Outcome(op, args, "raised", err, None, dates, loop, built)

\* Variant: the failing method leaves an empty dataset behind.
Abort_partial(outcome) ==
    /\ last' = outcome
    /\ obj' = [a \in Attrs(cls) |->
                 IF Populator(cls, a) = outcome.op THEN Some(<<>>) ELSE obj[a]]
    /\ UNCHANGED <<cls, done>>

\* An exception leaving a fetch method: the method's locals are dropped and
\* no attribute has been assigned (every assignment to self follows the last
\* statement that can raise).
Abort(outcome) ==
    /\ last' = outcome
    /\ UNCHANGED <<cls, obj, done>>

\* A remote call as issued, with the response the API gave (and, for a
\* membership call that succeeded, the member names it returned).
Call(fn, tickers, field, d1, d2, resp) ==
    [fn |-> fn, tickers |-> tickers, field |-> field, d1 |-> d1, d2 |-> d2,
     resp |-> resp, reply |-> {}]

ErrOf(kind) ==
    IF kind = "raise" THEN Err("RemoteCallError", "")
    ELSE Err("ComputeError", "")

\* pl.concat([]) raises.
EmptyConcat == Err("ValueError", "")

(* ------------------------------- inputs --------------------------------- *)

\* The first n month starts from `cur` on.
RECURSIVE MonthsFrom(_, _)
MonthsFrom(cur, n) ==
    IF n = 0 THEN {} ELSE {cur} \cup MonthsFrom(AddMonth(cur), n - 1)

\* A date that does not exist and a string that is not a date.
BadStrings == {20200230, 0}

\* Date strings of the 1st of n months from December 2019, and of the 15th
\* of January 2020.
MonthDays(n) ==
    {FmtYMD(ms) : ms \in MonthsFrom(DT(2019, 12, 1, 0), n)} \cup {20200115}

\* Values of datetime.today(): before the floor date, on it, around the
\* 10-year boundaries, a current date (each at midnight and later in the
\* day), and around the first chunk that starts on a 29 February (2580).
AllTodays ==
    {DT(d[1], d[2], d[3], t) :
        d \in {<<1989, 12, 31>>, <<1990, 1, 1>>, <<1999, 12, 31>>,
               <<2000, 1, 1>>, <<2000, 1, 2>>, <<2010, 1, 2>>, <<2010, 1, 3>>,
               <<2026, 11, 4>>},
        t \in {0, 1}}
      \cup {DT(2580, 2, 28, 1), DT(2580, 2, 29, 0), DT(2590, 2, 28, 1),
            DT(2590, 3, 1, 1)}

\* What the caller and the remote API may supply in a run:
\*   strs    date strings passed to fetch_chains
\*   dts     datetime objects passed to fetch_members and the INDEX fetches
\*   todays  values of datetime.today()
\*   replies member lists a membership call may return
\*   single  responses of the single-call fetches (bdp, and bdh / bdip of INDEX)
\*   divs    responses of the per-symbol dividend call
Inputs(strs, todays, replies, single, divs) ==
    [strs |-> strs,
     dts |-> {ParseYMD(x) : x \in {z \in strs : is_valid_yyyymmdd(z)}},
     todays |-> todays, replies |-> replies, single |-> single, divs |-> divs]

\* Responses of the per-symbol dividend call: the call raises, the payload
\* does not match the schema, a date does not parse, or it is well formed.
DivResponses == {"raise", "bad_schema", "bad_date", "ok"}

\* Whole life cycle: the first days of a few months and a date that does
\* not exist, two clock values, empty and full member lists, every response.
LifeCycle ==
    Inputs({FmtYMD(ms) : ms \in MonthsFrom(DT(2019, 12, 1, 0), MaxMonthsShort)}
               \cup {20200230},
           {DT(1989, 12, 31, 1), DT(2000, 1, 2, 1)},
           {{}, Names}, {"ok", "raise", "malformed"}, DivResponses)

\* Monthly windowing: every input date, one-member lists, a clock before
\* the floor date; the calls of the other fetches fail.
Monthly ==
    Inputs(MonthDays(MaxMonths) \cup BadStrings, {DT(1989, 12, 31, 1)},
           {{n} : n \in Names}, {"raise"}, {"raise"})

\* Chunked windowing: one input date, one member list, every clock value;
\* the calls of the other fetches fail.
Chunked == Inputs({20200101}, AllTodays, {{"A"}}, {"raise"}, {"raise"})

\* self.active_contract / self.index
Ticker(c) == IF c = "FUTURES" THEN "COA" ELSE "IDX"

(* ------------------------------ accessors ------------------------------- *)

\* Variant: an attribute that is None is handed out as an empty dataset.
get_or_raise_placeholder(o, attr_name, fetch_method_name) ==
    IF IsNone(o[attr_name])
    THEN [raised |-> FALSE, err |-> NoErr, value |-> Some(<<>>)]
    ELSE [raised |-> FALSE, err |-> NoErr, value |-> o[attr_name]]

\* __get_or_raise(attr_name, fetch_method_name) on the attributes o.
get_or_raise(o, attr_name, fetch_method_name) ==
    IF IsNone(o[attr_name])
    THEN [raised |-> TRUE, err |-> Err("AttributeError", fetch_method_name),
          value |-> None]
    ELSE [raised |-> FALSE, err |-> NoErr, value |-> o[attr_name]]

\* Reading the property a.
Read(a) ==
    \E g \in {get_or_raise(obj, a.attr, a.run)} :
        /\ last' = Outcome(a.name, <<>>, IF g.raised THEN "raised" ELSE "returned",
                           g.err, g.value, <<>>, NoLoop, FALSE)
        /\ calls' = <<>>
        /\ UNCHANGED <<cls, obj, done>>

ReadAccessor == \E a \in Accessors(cls) : Read(a)

(* ------------------------- membership fetches --------------------------- *)

ChainKey(r) == FmtYMD(r.as_of) * 10 + Rank(r.symbol)

\* The guard of fetch_meta / fetch_divs; fetch_ohlc tests _symbols only.
MembershipMissing(o, c) == IsNone(o[MemberAttr(c)]) \/ IsNone(o["_symbols"])

\* The loop over `dates` of fetch_chains / fetch_members and what follows
\* it: one bds call per date; a failing call ends the method; otherwise
\* concat, sort by (as_of, symbol), assign the dataset and its symbols.
MembershipLoop(P, op, args, field, dates) ==
    \E f \in 0..Min(Len(dates), MaxFailAt) :
      IF f > 0
      THEN \E kind \in {"raise"} :
             /\ calls' = [i \in 1..f |->
                            Call("bds", <<Ticker(cls)>>, field, dates[i], 0,
                                 IF i < f THEN "ok" ELSE kind)]
             /\ Abort(Raised(op, args, ErrOf(kind), dates, NoLoop, TRUE))
      ELSE IF Len(dates) = 0
      THEN /\ calls' = <<>>
           /\ Abort(Raised(op, args, EmptyConcat, dates, NoLoop, TRUE))
      ELSE \E rs \in [1..Len(dates) -> P.replies] :
           \E rows \in {UNION {{[as_of |-> ParseYMD(dates[i]), symbol |-> SymbolOf(cls, x)] :
                                  x \in rs[i]} : i \in 1..Len(dates)}} :
           \E syms \in Perms({r.symbol : r \in rows}) :
             /\ calls' = [i \in 1..Len(dates) |->
                            [Call("bds", <<Ticker(cls)>>, field, dates[i], 0, "ok")
                                EXCEPT !.reply = rs[i]]]
             /\ obj' = [obj EXCEPT
                          ![MemberAttr(cls)] =
                              Some(SortKeyed({[k |-> ChainKey(r), r |-> r] : r \in rows})),
                          !["_symbols"] = Some(syms)]
             /\ last' = Returned(op, args, dates, NoLoop)
             /\ done' = done \cup {op}
             /\ UNCHANGED cls


fetch_chains(P, start_date, end_date) ==
    /\ cls = "FUTURES"
    /\ IF ~is_valid_yyyymmdd(start_date) \/ ~is_valid_yyyymmdd(end_date)
       THEN /\ calls' = <<>>
            /\ Abort(Raised("fetch_chains", <<start_date, end_date>>,
                            Err("ValueError", ""), <<>>, NoLoop, FALSE))
       ELSE \E dates \in {MonthlyDates(ParseYMD(start_date), ParseYMD(end_date))} :
              MembershipLoop(P, "fetch_chains", <<start_date, end_date>>,
                             "FUT_CHAIN", dates)

fetch_members(P, start_date, end_date) ==
    /\ cls = "STOCKS"
    /\ \E dates \in {MonthlyDates(start_date, end_date)} :
         MembershipLoop(P, "fetch_members", <<FmtYMD(start_date), FmtYMD(end_date)>>,
                        "INDX_MWEIGHT_HIST", dates)

(* --------------------------- downstream fetches ------------------------- *)

\* Variant: the guard's message names a method other than the membership
\* fetch.
PrereqError_self(c) == Err("AttributeError", "fetch_meta")

\* The error of the prerequisite guards: "... Please run `fetch_chains()`
\* first." / "... Please run `fetch_members()` first."
PrereqError(c) == Err("AttributeError", MemberMethod(c))

\* A prerequisite guard failing: nothing is called, nothing is assigned.
RaisePrereq(op) ==
    /\ calls' = <<>>
    /\ Abort(Raised(op, <<>>, PrereqError(cls), <<>>, NoLoop, FALSE))

\* fetch_meta: one bdp call over self._symbols; one row per ticker, sorted.
fetch_meta(P) ==
    /\ cls \in {"FUTURES", "STOCKS"}
    /\ IF MembershipMissing(obj, cls) THEN RaisePrereq("fetch_meta")
       ELSE \E resp \in P.single :
              /\ calls' = <<Call("bdp", obj["_symbols"][1], "META", 0, 0, resp)>>
              /\ IF resp = "ok"
                 THEN /\ obj' = [obj EXCEPT !["_meta"] =
                            Some(SortKeyed({[k |-> Rank(x), r |-> [symbol |-> x]] :
                                              x \in SeqRange(obj["_symbols"][1])}))]
                      /\ last' = Returned("fetch_meta", <<>>, <<>>, NoLoop)
                      /\ done' = done \cup {"fetch_meta"}
                      /\ UNCHANGED cls
                 ELSE Abort(Raised("fetch_meta", <<>>, ErrOf(resp), <<>>, NoLoop, TRUE))

\* Rows of one successful bdh chunk: one bar per ticker on the chunk's first
\* day, as long as the remote history reaches that far.
HistoryRows(tickers, start_date) ==
    IF ParseYMD(start_date).y < HistoryEndYear
    THEN {[symbol |-> x, date |-> ParseYMD(start_date)] : x \in SeqRange(tickers)}
    ELSE {}

OhlcKey(r) == Rank(r.symbol) * 100000000 + FmtYMD(r.date)

\* The bdh request of one chunk.
OhlcCall(tickers, chunk, resp) ==
    Call("bdh", tickers, "OHLC", FmtYMD(chunk.start), FmtYMD(chunk.end), resp)

\* fetch_ohlc of FUTURES and STOCKS: guard on _symbols, the chunk loop, one
\* bdh call per chunk, concat, sort by (symbol, date), assign.
fetch_ohlc(P, today) ==
    /\ cls \in {"FUTURES", "STOCKS"}
    /\ IF IsNone(obj["_symbols"]) THEN RaisePrereq("fetch_ohlc")
       ELSE \E loop \in {BuildChunks(today)} :
            \E tickers \in {obj["_symbols"][1]} :
            \E f \in 0..Min(Len(loop.chunks), MaxFailAt) :
              IF f > 0
              THEN \E kind \in {"raise"} :
                     /\ calls' = [i \in 1..f |->
                                    OhlcCall(tickers, loop.chunks[i],
                                             IF i < f THEN "ok" ELSE kind)]
                     /\ Abort(Raised("fetch_ohlc", <<today>>, ErrOf(kind), <<>>, loop, TRUE))
              ELSE IF Len(loop.chunks) = 0
              THEN /\ calls' = <<>>
                   /\ Abort(Raised("fetch_ohlc", <<today>>, EmptyConcat, <<>>, loop, TRUE))
              ELSE \E rows \in {UNION {HistoryRows(tickers, FmtYMD(loop.chunks[i].start)) :
                                         i \in 1..Len(loop.chunks)}} :
                     /\ calls' = [i \in 1..Len(loop.chunks) |->
                                    OhlcCall(tickers, loop.chunks[i], "ok")]
                     /\ obj' = [obj EXCEPT !["_ohlc"] =
                           Some(SortKeyed({[k |-> OhlcKey(r), r |-> r] : r \in rows}))]
                     /\ last' = Returned("fetch_ohlc", <<today>>, <<>>, loop)
                     /\ done' = done \cup {"fetch_ohlc"}
                     /\ UNCHANGED cls

\* Variant: a payload that does not parse still yields a row (null dates).
fetch_div_lenient(symbol, resp) ==
    Some({[symbol |-> symbol, declared_date |-> DT(2020, 1, 2, 0)]})

\* __fetch_div(symbol) once bds has returned resp: the frame, or None when
\* anything inside the try block raises.
fetch_div(symbol, resp) ==
    IF resp = "ok"
    THEN Some({[symbol |-> symbol, declared_date |-> DT(2020, 1, 2, 0)]})
    ELSE None

DivKey(r) == Rank(r.symbol) * 100000000 + FmtYMD(r.declared_date)

\* Index of the first symbol whose bds call raises, 0 when none does.
FirstRaise(rs) ==
    IF \A i \in DOMAIN rs : rs[i] # "raise" THEN 0
    ELSE CHOOSE i \in DOMAIN rs :
           rs[i] = "raise" /\ \A j \in DOMAIN rs : rs[j] = "raise" => i <= j

\* fetch_divs (STOCKS): one __fetch_div per symbol in list order; a bds call
\* that raises ends the method; None results are dropped; concat, sort.
fetch_divs(P) ==
    /\ cls = "STOCKS"
    /\ IF MembershipMissing(obj, cls) THEN RaisePrereq("fetch_divs")
       ELSE \E symbols \in {obj["_symbols"][1]} :
            \E rs \in [1..Len(symbols) -> P.divs] :
            \E f \in {FirstRaise(rs)} :
            \E divs \in {{fetch_div(symbols[i], rs[i]) : i \in 1..Len(symbols)} \ {None}} :
              /\ \A i \in 1..Len(symbols) : (f > 0 /\ i > f) => rs[i] = "raise"
              /\ calls' = [i \in 1..(IF f = 0 THEN Len(symbols) ELSE f) |->
                             Call("bds", <<symbols[i]>>, "DVD_HIST_ALL", 0, 0, rs[i])]
              /\ IF f > 0
                 THEN Abort(Raised("fetch_divs", <<>>, ErrOf("raise"), <<>>, NoLoop, TRUE))
                 ELSE IF divs = {}
                 THEN Abort(Raised("fetch_divs", <<>>, EmptyConcat, <<>>, NoLoop, TRUE))
                 ELSE /\ obj' = [obj EXCEPT !["_divs"] =
                            Some(SortKeyed({[k |-> DivKey(r), r |-> r] :
                                              r \in UNION {d[1] : d \in divs}}))]
                      /\ last' = Returned("fetch_divs", <<>>, <<>>, NoLoop)
                      /\ done' = done \cup {"fetch_divs"}
                      /\ UNCHANGED cls

(* ------------------------------- INDEX ---------------------------------- *)

\* fetch_ohlc_daily / fetch_ohlc_1min: a single bdh / bdip call, then
\* normalisation, sort and assignment.
IndexFetch(P, op, attr, fn, start, end) ==
    /\ cls = "INDEX"
    /\ \E resp \in P.single :
         /\ calls' = <<Call(fn, <<Ticker(cls)>>, "OHLC", FmtYMD(start), FmtYMD(end), resp)>>
         /\ IF resp = "ok"
            THEN /\ obj' = [obj EXCEPT ![attr] =
                       Some(<<[symbol |-> Ticker(cls), date |-> start]>>)]
                 /\ last' = Returned(op, <<FmtYMD(start), FmtYMD(end)>>, <<>>, NoLoop)
                 /\ done' = done \cup {op}
                 /\ UNCHANGED cls
            ELSE Abort(Raised(op, <<FmtYMD(start), FmtYMD(end)>>, ErrOf(resp),
                              <<>>, NoLoop, TRUE))

fetch_ohlc_daily(P, start, end) ==
    IndexFetch(P, "fetch_ohlc_daily", "_ohlc_daily", "bdh", start, end)

fetch_ohlc_1min(P, start, end) ==
    IndexFetch(P, "fetch_ohlc_1min", "_ohlc_1min", "bdip", start, end)

(* ---------------------------- specification ----------------------------- *)

\* __init__: every dataset attribute is None.
Init ==
    /\ cls \in Classes
    /\ obj = [a \in Attrs(cls) |-> None]
    /\ calls = <<>>
    /\ last = Outcome("__init__", <<>>, "returned", NoErr, None, <<>>, NoLoop, FALSE)
    /\ done = {}

FetchChains(P) == \E s \in P.strs, e \in P.strs : fetch_chains(P, s, e)

FetchMembers(P) == \E s \in P.dts, e \in P.dts : fetch_members(P, s, e)

FetchMeta(P) == fetch_meta(P)

FetchOhlc(P) == \E today \in P.todays : fetch_ohlc(P, today)

FetchDivs(P) == fetch_divs(P)

FetchOhlcDaily(P) == \E s \in P.dts, e \in P.dts : fetch_ohlc_daily(P, s, e)

FetchOhlc1Min(P) == \E s \in P.dts, e \in P.dts : fetch_ohlc_1min(P, s, e)

\* Any method call or property read, with inputs drawn from P.
NextOver(P) ==
    \/ ReadAccessor
    \/ FetchChains(P)
    \/ FetchMembers(P)
    \/ FetchMeta(P)
    \/ FetchOhlc(P)
    \/ FetchDivs(P)
    \/ FetchOhlcDaily(P)
    \/ FetchOhlc1Min(P)

Next == NextOver(LifeCycle)

Spec == Init /\ [][Next]_vars

NextMonthly == NextOver(Monthly)

SpecMonthly == Init /\ [][NextMonthly]_vars

NextChunked == NextOver(Chunked)

SpecChunked == Init /\ [][NextChunked]_vars

(* ------------------------------- claims --------------------------------- *)

AccessorOf(c, name) == CHOOSE a \in Accessors(c) : a.name = name

IsRead == last.op \in {a.name : a \in Accessors(cls)}

Downstream == {"fetch_meta", "fetch_ohlc", "fetch_divs"}

HasMembership == cls \in {"FUTURES", "STOCKS"}

\* C1: an accessor raises as long as the fetch that populates its dataset
\* has not completed successfully (it never hands out an empty or
\* placeholder value), and returns the stored dataset once it has.  Stated
\* for every accessor in every state, and for the read just performed.
C1_AccessBeforeFetchRaises ==
    /\ \A a \in Accessors(cls) :
         IF Populator(cls, a.attr) \in done
         THEN /\ ~get_or_raise(obj, a.attr, a.run).raised
              /\ ~IsNone(obj[a.attr])
              /\ get_or_raise(obj, a.attr, a.run).value = obj[a.attr]
         ELSE /\ get_or_raise(obj, a.attr, a.run).raised
              /\ get_or_raise(obj, a.attr, a.run).value = None
    /\ IsRead =>
         IF Populator(cls, AccessorOf(cls, last.op).attr) \in done
         THEN last.status = "returned" /\ last.ret = obj[AccessorOf(cls, last.op).attr]
         ELSE last.status = "raised" /\ last.ret = None

\* C1 witness: an accessor was read and raised although other fetches of the
\* object had already completed.
C1_Witness ==
    /\ IsRead
    /\ last.status = "raised"
    /\ last.op = "ohlc"
    /\ "fetch_meta" \in done

\* C2: fetch_meta, fetch_ohlc or fetch_divs called while the membership
\* fetch has not completed raises the prerequisite error naming the
\* membership fetch method, issues no remote call, and every dataset is
\* still unset.
C2_PrerequisiteError ==
    (HasMembership /\ last.op \in Downstream /\ MemberMethod(cls) \notin done) =>
        /\ last.status = "raised"
        /\ last.err = Err("AttributeError", MemberMethod(cls))
        /\ calls = <<>>
        /\ \A a \in Attrs(cls) : IsNone(obj[a])

\* C2 witness: fetch_divs was called before fetch_members and raised.
C2_Witness ==
    /\ last.op = "fetch_divs"
    /\ MemberMethod(cls) \notin done
    /\ last.err.run = "fetch_members"

\* The accessors the sentence lists.
ListedAccessors == {"chains", "members", "meta", "ohlc", "divs", "symbols"}

\* C3 (as claimed): on FUTURES and STOCKS a listed accessor read before its
\* dataset exists raises an error naming a fetch method that the object
\* offers, and once that method has completed the accessor no longer raises.
C3_ErrorNamesOfferedMethod ==
    (HasMembership /\ IsRead /\ last.op \in ListedAccessors) =>
        /\ last.status = "raised" =>
             /\ last.err.type = "AttributeError"
             /\ last.err.run \in Methods(cls)
        /\ AccessorOf(cls, last.op).run \in done => last.status = "returned"

\* C4 (as claimed): when the bds call of one symbol raises in fetch_divs while
\* the call of another symbol succeeded, fetch_divs returns and divs holds
\* the rows of the other symbols.
C4_DivCallFailureSkipped ==
    (/\ last.op = "fetch_divs"
     /\ \E i \in DOMAIN calls : calls[i].resp = "raise"
     /\ \E i \in DOMAIN calls : calls[i].resp = "ok") =>
        /\ last.status = "returned"
        /\ {r.symbol : r \in SeqRange(obj["_divs"][1])}
             = {calls[i].tickers[1] : i \in {j \in DOMAIN calls : calls[j].resp = "ok"}}

Malformed == {"bad_schema", "bad_date"}

\* C5: when every bds call of fetch_divs returns, some payloads are malformed
\* (schema mismatch or unparseable date) and at least one is well formed,
\* fetch_divs returns and divs holds exactly the rows of the well-formed
\* symbols, sorted, and no row of a malformed symbol.
C5_MalformedDivsSkipped ==
    (/\ last.op = "fetch_divs"
     /\ last.built
     /\ \A i \in DOMAIN calls : calls[i].resp # "raise"
     /\ \E i \in DOMAIN calls : calls[i].resp \in Malformed
     /\ \E i \in DOMAIN calls : calls[i].resp = "ok") =>
        /\ last.status = "returned"
        /\ Len(calls) = Len(obj["_symbols"][1])
        /\ SeqRange(obj["_divs"][1])
             = UNION {fetch_div(calls[i].tickers[1], "ok")[1] :
                        i \in {j \in DOMAIN calls : calls[j].resp = "ok"}}
        /\ \A i \in DOMAIN calls :
             calls[i].resp \in Malformed =>
               \A k \in DOMAIN obj["_divs"][1] :
                 obj["_divs"][1][k].symbol # calls[i].tickers[1]
        /\ \A k \in 1..(Len(obj["_divs"][1]) - 1) :
             DivKey(obj["_divs"][1][k]) <= DivKey(obj["_divs"][1][k + 1])

\* C5 witness: fetch_divs returned after one symbol's payload had a date
\* that does not parse and the other symbol's payload was well formed.
C5_Witness ==
    /\ last.op = "fetch_divs"
    /\ last.status = "returned"
    /\ \E i \in DOMAIN calls : calls[i].resp = "bad_date"
    /\ \E i \in DOMAIN calls : calls[i].resp = "ok"

\* Year and month of a YYYYMMDD date string, as one number.
YearMonth(x) == x \div 100

IsMembershipFetch == last.op \in {"fetch_chains", "fetch_members"}

\* C6 (as claimed): for every start > end the monthly windowing of the
\* membership fetch yields no window.
C6_ReversedRangeEmpty ==
    (IsMembershipFetch /\ last.built /\ last.args[1] > last.args[2]) =>
        last.dates = <<>>

\* C6 (amended): when the month of start is later than the month of end the
\* windowing yields no window and does not raise: the list is built, no
\* remote call is issued, and the error the fetch ends with is the one of
\* concatenating an empty list.  When start > end lie in the same month,
\* exactly that month's window is produced.
C6_ReversedMonthsEmpty ==
    (IsMembershipFetch /\ last.built /\ last.args[1] > last.args[2]) =>
        IF YearMonth(last.args[1]) > YearMonth(last.args[2])
        THEN /\ last.dates = <<>>
             /\ calls = <<>>
             /\ last.err = EmptyConcat
        ELSE last.dates = <<YearMonth(last.args[1]) * 100 + 1>>

\* C6 witness: fetch_members was called with a start in a later month than
\* the end, and built an empty list of dates.
C6_Witness ==
    /\ last.op = "fetch_members"
    /\ last.built
    /\ YearMonth(last.args[1]) > YearMonth(last.args[2])
    /\ last.dates = <<>>

\* C7 (as claimed): with an empty symbol set, fetch_meta, fetch_ohlc and
\* fetch_divs issue no remote call.
C7_EmptySymbolsNoCall ==
    (/\ HasMembership
     /\ last.op \in Downstream
     /\ obj["_symbols"] = Some(<<>>)) => calls = <<>>

\* C8: a fetch that raises (format error, prerequisite error, or a remote
\* call failing anywhere in its loop) returns nothing to chain on, assigns
\* nothing, and every dataset set before is still returned by its accessor.
C8_FailureKeepsDatasets ==
    [][(last'.op \in Methods(cls) /\ last'.status = "raised") =>
          /\ obj' = obj
          /\ done' = done
          /\ \A a \in Accessors(cls) :
               ~IsNone(obj[a.attr]) =>
                 /\ ~get_or_raise(obj', a.attr, a.run).raised
                 /\ get_or_raise(obj', a.attr, a.run).value = obj[a.attr]]_vars

\* C8 witness: fetch_ohlc raised at its second chunk, after membership and
\* metadata had been fetched.
C8_Witness ==
    /\ last.op = "fetch_ohlc"
    /\ last.status = "raised"
    /\ Len(calls) = 2
    /\ ~IsNone(obj["_meta"])

\* Day number of a date (days since 0000-03-01, proleptic Gregorian).
Ord(dt) ==
    LET y == IF dt.m <= 2 THEN dt.y - 1 ELSE dt.y
        m == IF dt.m <= 2 THEN dt.m + 9 ELSE dt.m - 3
    IN  365 * y + (y \div 4) - (y \div 100) + (y \div 400)
          + ((153 * m + 2) \div 5) + dt.d - 1

OnOrAfterFloor(today) == DtLE(ParseYMD(FloorDate), today)

OhlcBuilt == last.op = "fetch_ohlc" /\ last.built

\* C9: for today on or after 1990-01-01 the chunk loop of fetch_ohlc ends,
\* every chunk has start <= end, each chunk starts exactly one day after
\* the previous one ended (so they do not overlap), and the last chunk does
\* not end after today.
C9_ChunksContiguous ==
    (OhlcBuilt /\ OnOrAfterFloor(last.args[1])) =>
        /\ last.exited
        /\ Len(last.chunks) >= 1
        /\ \A i \in DOMAIN last.chunks :
             DtLE(last.chunks[i].start, last.chunks[i].end)
        /\ \A i \in 1..(Len(last.chunks) - 1) :
             /\ Ord(last.chunks[i + 1].start) = Ord(last.chunks[i].end) + 1
             /\ last.chunks[i + 1].start.t = last.chunks[i].end.t
             /\ DtLT(last.chunks[i].end, last.chunks[i + 1].start)
        /\ DtLE(last.chunks[Len(last.chunks)].end, last.args[1])

\* C9 witness: fetch_ohlc built more than two chunks for a today later in
\* the day.
C9_Witness ==
    /\ OhlcBuilt
    /\ Len(last.chunks) > 2
    /\ last.args[1].t = 1

\* Day number of a YYYYMMDD request parameter.
OrdOf(x) == Ord(ParseYMD(x))

\* The requests whose [start_date, end_date] contains the day.
Covering(day) == {i \in DOMAIN calls : OrdOf(calls[i].d1) <= day /\ day <= OrdOf(calls[i].d2)}

\* Days at the edges of the span and of every requested window.
EdgeDays ==
    {OrdOf(FloorDate), Ord(last.args[1])}
        \cup UNION {{OrdOf(calls[i].d1), OrdOf(calls[i].d2)} : i \in DOMAIN calls}

\* C10: when fetch_ohlc returns (today on or after the floor date), the
\* requests sent cover 1990-01-01..today exactly once at day granularity:
\* one request per chunk, the first starting on 19900101, the last ending
\* on today, each starting the day after the previous one ended, and every
\* day of the span next to a window edge lying in exactly one request.
C10_RequestsCoverSpanOnce ==
    (last.op = "fetch_ohlc" /\ last.status = "returned") =>
        /\ Len(calls) = Len(last.chunks)
        /\ \A i \in DOMAIN calls :
             /\ calls[i].fn = "bdh"
             /\ is_valid_yyyymmdd(calls[i].d1)
             /\ is_valid_yyyymmdd(calls[i].d2)
             /\ OrdOf(calls[i].d1) <= OrdOf(calls[i].d2)
        /\ calls[1].d1 = FloorDate
        /\ OrdOf(calls[Len(calls)].d2) = Ord(last.args[1])
        /\ \A i \in 1..(Len(calls) - 1) : OrdOf(calls[i + 1].d1) = OrdOf(calls[i].d2) + 1
        /\ \A e \in EdgeDays : \A day \in (e - 1)..(e + 1) :
             (OrdOf(FloorDate) <= day /\ day <= Ord(last.args[1])) =>
                 Cardinality(Covering(day)) = 1

\* C10 witness: fetch_ohlc returned for a today after the chunk that starts
\* on 29 February 2580, whose end is cut to 28 February 2590.
C10_Witness ==
    /\ last.op = "fetch_ohlc"
    /\ last.status = "returned"
    /\ \E i \in DOMAIN calls : calls[i].d1 = 25800229 /\ calls[i].d2 = 25900228
    /\ \E i \in DOMAIN calls : calls[i].d1 = 25900301

\* Number of the month of a YYYYMMDD date string, counted from year 0.
MonthIndex(x) == (x \div 10000) * 12 + ((x \div 100) % 100) - 1

\* YYYYMMDD of day 1 of the month with the given number.
MonthStart(k) == (k \div 12) * 10000 + ((k % 12) + 1) * 100 + 1

\* months_between(start, end) of two YYYYMMDD date strings.
months_between(start, end) == MonthIndex(end) - MonthIndex(start)

\* The rows the calls of the log returned: one per member of each reply,
\* carrying that call's date.
RowsOfCalls ==
    UNION {{[as_of |-> ParseYMD(calls[i].d1), symbol |-> SymbolOf(cls, x)] :
              x \in calls[i].reply} : i \in DOMAIN calls}

\* C11: for valid start <= end the membership fetch sends its bds calls in
\* ascending month order, the i-th one for day 1 of the i-th month counted
\* from the month of start; when it returns it has sent exactly
\* months_between(start, end) + 1 of them and the stored dataset consists
\* of the rows of those calls, each tagged with its call's date; when a
\* call fails the fetch stops there, having sent a prefix of that sequence.
C11_OneCallPerMonth ==
    (IsMembershipFetch /\ last.built /\ last.args[1] <= last.args[2]) =>
        LET n == months_between(last.args[1], last.args[2]) + 1
        IN  /\ Len(calls) >= 1
            /\ Len(calls) <= n
            /\ \A i \in DOMAIN calls :
                  /\ calls[i].fn = "bds"
                  /\ calls[i].tickers = <<Ticker(cls)>>
                  /\ calls[i].d1 = MonthStart(MonthIndex(last.args[1]) + i - 1)
                  /\ i < Len(calls) => calls[i].resp = "ok"
            /\ last.status = "returned" =>
                  /\ Len(calls) = n
                  /\ calls[n].resp = "ok"
                  /\ calls[n].d1 = YearMonth(last.args[2]) * 100 + 1
                  /\ SeqRange(obj[MemberAttr(cls)][1]) = RowsOfCalls
            /\ last.status = "raised" => calls[Len(calls)].resp # "ok"

\* C11 witness: a membership fetch from a December to a day inside the
\* following January or later returned after calls whose replies differ.
C11_Witness ==
    /\ IsMembershipFetch
    /\ last.status = "returned"
    /\ last.args[1] = 20191201
    /\ last.args[2] > 20200101
    /\ Len(calls) >= 2
    /\ calls[1].reply # calls[2].reply

\* The membership dataset and the symbol list of the object.
Membership == obj[MemberAttr(cls)]

Symbols == obj["_symbols"]

\* In this state the two attributes are set together and the symbol list
\* holds each symbol of the membership dataset once.
SymbolsMatchMembership ==
    HasMembership =>
        /\ IsNone(Symbols) <=> IsNone(Membership)
        /\ ~IsNone(Symbols) =>
              /\ SeqRange(Symbols[1]) = {r.symbol : r \in SeqRange(Membership[1])}
              /\ Len(Symbols[1]) = Cardinality(SeqRange(Symbols[1]))

\* This step changes the membership dataset or the symbol list only as a
\* membership fetch that returns.
OnlyMembershipFetchWrites ==
    (HasMembership /\ <<Membership, Symbols>>' # <<Membership, Symbols>>) =>
        /\ last'.op = MemberMethod(cls)
        /\ last'.status = "returned"

\* C12: over every sequence of calls on a FUTURES or STOCKS object the
\* symbol list is set exactly when the membership dataset is set, it then
\* holds exactly the distinct symbols of the current membership dataset,
\* and only a membership fetch that returns changes either of them.
C12_SymbolsFollowMembership ==
    []SymbolsMatchMembership /\ [][OnlyMembershipFetchWrites]_vars

\* C12 witness: a membership fetch has just failed on an object whose
\* two-symbol membership was fetched after fetch_meta had stored the
\* metadata of an earlier, empty membership.
C12_Witness ==
    /\ IsMembershipFetch
    /\ last.status = "raised"
    /\ Len(calls) >= 1
    /\ ~IsNone(Symbols)
    /\ Len(Symbols[1]) = 2
    /\ obj["_meta"] = Some(<<>>)

====
